---- MODULE Spec2Model ----
(***************************************************************************)
(* xero2rabo: Xero bank-statement rows (CSV) -> SEPA Credit Transfer XML.  *)
(* The model follows src/xero2rabo.py: createMsgId, get_credit_transactions*)
(* process_xml and the __main__ block.  Strings are sequences of one-      *)
(* character strings; the element tree is a heap of nodes addressed by id, *)
(* so that aliasing and copying are visible.                               *)
(***************************************************************************)
EXTENDS Integers, Sequences, FiniteSets, TLC

VARIABLES
    pc,                   \* position of the run in __main__ / process_xml
    args,                 \* parsed command line (id_prefix, initiating_party, ...)
    now,                  \* module global `now`, captured once per process
    template,             \* content of sepa-template.xml (a heap of nodes)
    input_file,           \* rows of the CSV input, each a sequence of fields
    heap,                 \* the nodes of the working tree, by id
    credit_transactions,  \* list(get_credit_transactions(...))
    id,                   \* local `id` of process_xml
    index,                \* loop index of enumerate(credit_transactions)
    cdtTrfTxInf,          \* the detached template block (0 = not yet looked up)
    parent,               \* the PmtInf element (0 = not yet looked up)
    appended,             \* ids of the clones appended so far, in order
    output_file,          \* <<tree>> once tree.write has run, <<>> before
    error,                \* the exception that ended the run, or "none"
    runs,                 \* log of createMsgId calls of separate processes
    e2e                   \* <<index, text>> of one end-to-end-id formatting

vars == <<pc, args, now, template, input_file, heap, credit_transactions, id,
          index, cdtTrfTxInf, parent, appended, output_file, error,
          runs, e2e>>

-----------------------------------------------------------------------------
(* Bounds of the model *)

MaxRows == 2
MaxRuns == 2
MaxIndex == 10000

(* Program constants *)

PrefixWidth == 5
RandLen == 7
IndexWidth == 4

None == 0
Root == 1

-----------------------------------------------------------------------------
(* Strings *)

Digits == <<"0", "1", "2", "3", "4", "5", "6", "7", "8", "9">>

RECURSIVE Str(_)
\* str(n) and '{}'.format(n) for n >= 0: the decimal digits, no padding
Str(n) == IF n < 10 THEN <<Digits[n + 1]>>
          ELSE Str(n \div 10) \o <<Digits[(n % 10) + 1]>>

Zeros(k) == [i \in 1..k |-> "0"]

\* str.zfill(width): zeros go after a leading sign, otherwise at the left
ZFill(s, width) ==
    IF Len(s) >= width THEN s
    ELSE IF Len(s) > 0 /\ s[1] \in {"+", "-"}
         THEN <<s[1]>> \o Zeros(width - Len(s)) \o Tail(s)
         ELSE Zeros(width - Len(s)) \o s

\* '{:02d}'.format(n) for n >= 0
Fmt02d(n) == IF n < 10 THEN <<"0">> \o Str(n) ELSE Str(n)

\* '{:04d}' as date.isoformat writes the year
Fmt04d(n) == Zeros(4 - Len(Str(n))) \o Str(n)

\* ('-{}' + '{:02d}' * 5 + '-').format(year, month, day, hour, minute, second)
StampOf(t) ==
    <<"-">> \o Str(t.year) \o Fmt02d(t.month) \o Fmt02d(t.day)
            \o Fmt02d(t.hour) \o Fmt02d(t.minute) \o Fmt02d(t.second) \o <<"-">>

\* date.isoformat()
DateIso(t) == Fmt04d(t.year) \o <<"-">> \o Fmt02d(t.month) \o <<"-">> \o Fmt02d(t.day)

\* datetime.isoformat(): the fraction is written only when microsecond # 0
DateTimeIso(t) ==
    DateIso(t) \o <<"T">> \o Fmt02d(t.hour) \o <<":">> \o Fmt02d(t.minute)
               \o <<":">> \o Fmt02d(t.second)
               \o (IF t.microsecond = 0 THEN <<>>
                   ELSE <<".">> \o Zeros(6 - Len(Str(t.microsecond))) \o Str(t.microsecond))

\* s.split('.')[0]
RECURSIVE UpToDot(_)
UpToDot(s) == IF s = <<>> \/ Head(s) = "." THEN <<>>
              ELSE <<Head(s)>> \o UpToDot(Tail(s))

\* now.isoformat().split('.')[0]
CreDtTmText(t) == UpToDot(DateTimeIso(t))

-----------------------------------------------------------------------------
(* createMsgId *)

\* prefix[:5] if len(prefix) > 4 else prefix.zfill(5)
NormPrefix(prefix) ==
    IF Len(prefix) > 4 THEN SubSeq(prefix, 1, PrefixWidth)
    ELSE ZFill(prefix, PrefixWidth)

\* createMsgId with a suffix computed once and reused by every call
CreateMsgIdCachedSuffix(prefix, rnd) ==
    NormPrefix(prefix) \o StampOf(now) \o [i \in 1..RandLen |-> "a"]

\* createMsgId(prefix); rnd is the outcome of the seven random.choice calls
CreateMsgId(prefix, rnd) == NormPrefix(prefix) \o StampOf(now) \o rnd

\* string.ascii_lowercase + string.digits, a sample of its 36 symbols
RandAlphabet == {"a", "9"}

\* outcomes of ''.join(random.choice(...) for _ in range(7)), a sample
RandomDraws ==
    {[i \in 1..RandLen |-> c] : c \in RandAlphabet}
        \cup {[i \in 1..RandLen |-> IF i % 2 = 1 THEN "a" ELSE "9"]}

-----------------------------------------------------------------------------
(* Element trees: xml.etree.ElementTree over a heap of nodes *)

Elem(tag, text, attrib, children) ==
    [tag |-> tag, text |-> text, attrib |-> attrib, children |-> children]

MaxOf(S) == CHOOSE m \in S : \A x \in S : x <= m

RECURSIVE Concat(_)
Concat(seqs) == IF seqs = <<>> THEN <<>> ELSE Head(seqs) \o Concat(Tail(seqs))

RECURSIVE Preorder(_, _)
\* Element.iter(): the element and all elements beneath it, in document order
Preorder(h, n) ==
    <<n>> \o Concat([i \in 1..Len(h[n].children) |-> Preorder(h, h[n].children[i])])

IsTag(h, tag, n) == h[n].tag = tag

SelectTag(h, tag, seq) ==
    LET Test(n) == IsTag(h, tag, n) IN SelectSeq(seq, Test)

\* ElementPath './/tag': every element beneath the context with that tag
Descendants(h, n, tag) == SelectTag(h, tag, Tail(Preorder(h, n)))

\* ElementPath '/tag' step: the children with that tag, of each element in turn
ChildStep(h, seq, tag) ==
    Concat([i \in 1..Len(seq) |-> SelectTag(h, tag, h[seq[i]].children)])

RECURSIVE ChildSteps(_, _, _)
ChildSteps(h, seq, tags) ==
    IF tags = <<>> THEN seq
    ELSE ChildSteps(h, ChildStep(h, seq, Head(tags)), Tail(tags))

\* Element.findall('.//a/b/c'), path given as <<"a", "b", "c">>
FindAll(h, n, path) == ChildSteps(h, Descendants(h, n, Head(path)), Tail(path))

\* Element.find(path): the first match, or None
Find(h, n, path) ==
    LET all == FindAll(h, n, path) IN IF all = <<>> THEN None ELSE Head(all)

\* elem.text = value
SetText(h, n, value) == [h EXCEPT ![n].text = value]

IndexOf(seq, x) == CHOOSE i \in 1..Len(seq) : seq[i] = x /\ \A j \in 1..(i - 1) : seq[j] # x

RemoveAt(seq, i) == SubSeq(seq, 1, i - 1) \o SubSeq(seq, i + 1, Len(seq))

InSeq(seq, x) == \E i \in 1..Len(seq) : seq[i] = x

\* the remove left out
RemoveChildKept(h, p, c) == h

\* parent.remove(child): drops the first occurrence of child among the children
RemoveChild(h, p, c) ==
    [h EXCEPT ![p].children = RemoveAt(h[p].children, IndexOf(h[p].children, c))]

\* the append left out
AppendChildDropped(h, p, c) == h

\* parent.append(child)
AppendChild(h, p, c) == [h EXCEPT ![p].children = Append(h[p].children, c)]

\* copy.deepcopy(elem): a fresh node for every element of the subtree
DeepCopy(h, n) ==
    LET old == Preorder(h, n)
        base == MaxOf(DOMAIN h)
        New(o) == base + IndexOf(old, o)
        fresh == {base + i : i \in 1..Len(old)}
        Src(f) == old[f - base]
    IN [heap |-> [x \in DOMAIN h \cup fresh |->
                    IF x \in DOMAIN h THEN h[x]
                    ELSE [h[Src(x)] EXCEPT
                            !.children = [i \in 1..Len(h[Src(x)].children) |->
                                            New(h[Src(x)].children[i])]]],
        node |-> base + 1]

-----------------------------------------------------------------------------
(* sepa-template.xml: one GrpHdr, one PmtInf holding one sample CdtTrfTxInf *)

NoAttrib == {}
NoText == <<>>

TemplateNodes == <<
    Elem("Document", NoText, {<<"xmlns:xsi", "XMLSchema-instance">>}, <<2>>),   \*  1
    Elem("CstmrCdtTrfInitn", NoText, NoAttrib, <<3, 9>>),                      \*  2
    Elem("GrpHdr", NoText, NoAttrib, <<4, 5, 6, 7>>),                          \*  3
    Elem("MsgId", NoText, NoAttrib, <<>>),                                     \*  4
    Elem("CreDtTm", NoText, NoAttrib, <<>>),                                   \*  5
    Elem("NbOfTxs", NoText, NoAttrib, <<>>),                                   \*  6
    Elem("InitgPty", NoText, NoAttrib, <<8>>),                                 \*  7
    Elem("Nm", NoText, NoAttrib, <<>>),                                        \*  8
    Elem("PmtInf", NoText, NoAttrib, <<10, 11, 12, 13, 15, 18, 21, 22>>),      \*  9
    Elem("PmtInfId", NoText, NoAttrib, <<>>),                                  \* 10
    Elem("PmtMtd", <<"TRF">>, NoAttrib, <<>>),                                 \* 11
    Elem("ReqdExctnDt", NoText, NoAttrib, <<>>),                               \* 12
    Elem("Dbtr", NoText, NoAttrib, <<14>>),                                    \* 13
    Elem("Nm", NoText, NoAttrib, <<>>),                                        \* 14
    Elem("DbtrAcct", NoText, NoAttrib, <<16>>),                                \* 15
    Elem("Id", NoText, NoAttrib, <<17>>),                                      \* 16
    Elem("IBAN", NoText, NoAttrib, <<>>),                                      \* 17
    Elem("DbtrAgt", NoText, NoAttrib, <<19>>),                                 \* 18
    Elem("FinInstnId", NoText, NoAttrib, <<20>>),                              \* 19
    Elem("BIC", NoText, NoAttrib, <<>>),                                       \* 20
    Elem("ChrgBr", <<"SLEV">>, NoAttrib, <<>>),                                \* 21
    Elem("CdtTrfTxInf", NoText, NoAttrib, <<23, 25, 27, 29, 32>>),             \* 22
    Elem("PmtId", NoText, NoAttrib, <<24>>),                                   \* 23
    Elem("EndToEndId", <<"sample-id">>, NoAttrib, <<>>),                       \* 24
    Elem("Amt", NoText, NoAttrib, <<26>>),                                     \* 25
    Elem("InstdAmt", <<"0.00">>, {<<"Ccy", "EUR">>}, <<>>),                    \* 26
    Elem("Cdtr", NoText, NoAttrib, <<28>>),                                    \* 27
    Elem("Nm", <<"sample-name">>, NoAttrib, <<>>),                             \* 28
    Elem("CdtrAcct", NoText, NoAttrib, <<30>>),                                \* 29
    Elem("Id", NoText, NoAttrib, <<31>>),                                      \* 30
    Elem("IBAN", <<"sample-iban">>, NoAttrib, <<>>),                           \* 31
    Elem("RmtInf", NoText, NoAttrib, <<33>>),                                  \* 32
    Elem("Ustrd", <<"sample-text">>, NoAttrib, <<>>)                           \* 33
>>

\* the template the repository ships
SepaTemplate == [n \in 1..Len(TemplateNodes) |-> TemplateNodes[n]]

ParentOf(h, n) == CHOOSE p \in DOMAIN h : InSeq(h[p].children, n)

\* a template file that lacks element n (and what is beneath it)
Without(h, n) ==
    LET gone == {Preorder(h, n)[i] : i \in 1..Len(Preorder(h, n))}
        Keep(c) == c # n
    IN [x \in DOMAIN h \ gone |-> [h[x] EXCEPT !.children = SelectSeq(@, Keep)]]

\* a template file whose PmtInf holds the sample block twice
WithSecondBlock(h) ==
    LET blk == Find(h, Root, <<"CdtTrfTxInf">>)
        old == Preorder(h, blk)
        base == MaxOf(DOMAIN h)
    IN [x \in DOMAIN h \cup {base + i : i \in 1..Len(old)} |->
          IF x \in DOMAIN h
          THEN IF x = ParentOf(h, blk)
               THEN [h[x] EXCEPT !.children = Append(@, base + 1)]
               ELSE h[x]
          ELSE [h[old[x - base]] EXCEPT
                  !.children = [i \in 1..Len(@) |-> base + IndexOf(old, @[i])]]]

\* a template file whose sample block sits one level below PmtInf
WithNestedBlock(h) ==
    LET blk == Find(h, Root, <<"CdtTrfTxInf">>)
        w == MaxOf(DOMAIN h) + 1
    IN [x \in DOMAIN h \cup {w} |->
          IF x = w THEN Elem("Wrapper", NoText, NoAttrib, <<blk>>)
          ELSE [h[x] EXCEPT !.children = [i \in 1..Len(@) |-> IF @[i] = blk THEN w ELSE @[i]]]]

\* the elements process_xml looks up, any of which a template file may lack
LookedUp == {4, 5, 6, 8, 10, 12, 14, 17, 20, 22, 24, 26, 28, 31, 33}

Templates ==
    {SepaTemplate, WithSecondBlock(SepaTemplate), WithNestedBlock(SepaTemplate)}
        \cup {Without(SepaTemplate, n) : n \in LookedUp}

-----------------------------------------------------------------------------
(* Inputs *)

Txt(token) == <<token>>

RowA == <<Txt("300.00"), Txt("NL23RABO0"), Txt("A. de Vries"), Txt("Wages"), Txt("Wages1 Feb")>>
RowB == <<Txt("12.50"), Txt("NL91ABNA0"), Txt("B. Jansen"), Txt("Rent"), Txt("Rent March"), Txt("extra")>>
RowShort == <<Txt("7.00"), Txt("NL02INGB0"), Txt("C. Short"), Txt("Fee")>>

Rows == {RowA, RowB, RowShort}

RECURSIVE SeqsUpTo(_, _)
SeqsUpTo(S, n) ==
    IF n = 0 THEN {<<>>}
    ELSE LET shorter == SeqsUpTo(S, n - 1)
         IN shorter \cup {Append(q, x) : q \in {r \in shorter : Len(r) = n - 1}, x \in S}

InputFiles == SeqsUpTo(Rows, MaxRows)

PrefixAB == <<"A", "B">>
PrefixSigned == <<"-", "A">>
PrefixABCDE == <<"A", "B", "C", "D", "E">>
PrefixABCDEFG == <<"A", "B", "C", "D", "E", "F", "G">>

\* values of --id_prefix; the default is ''
Prefixes == {<<>>, PrefixAB, PrefixSigned, PrefixABCDE, PrefixABCDEFG}

ArgsOf(prefix) ==
    [id_prefix |-> prefix, initiating_party |-> Txt("ACME"), debtor_name |-> Txt("ACME BV"),
     debtor_account |-> Txt("NL00RABO1"), debtor_bic |-> Txt("RABONL2U")]

\* values datetime.now() returns
Nows == {[year |-> 2026, month |-> 11, day |-> 1, hour |-> 9, minute |-> 5, second |-> 0,
          microsecond |-> 0],
         [year |-> 2027, month |-> 2, day |-> 28, hour |-> 23, minute |-> 59, second |-> 59,
          microsecond |-> 1234]}

-----------------------------------------------------------------------------
(* get_credit_transactions *)

\* the description taken from the field before the right one
TxOfField3(row) == [amount |-> row[1], iban |-> row[2], creditor_name |-> row[3], descr |-> row[4]]

\* the dict one row yields; row[4] must exist
TxOf(row) == [amount |-> row[1], iban |-> row[2], creditor_name |-> row[3], descr |-> row[5]]

\* row[0], row[1], row[2], row[4] raise IndexError on a row of fewer than 5 fields
RowIsLongEnough(row) == Len(row) >= 5

-----------------------------------------------------------------------------
(* process_xml and __main__ *)

Init ==
    /\ pc = "parse"
    /\ args \in {ArgsOf(x) : x \in {<<>>, PrefixAB}}
    /\ now \in Nows
    /\ template \in Templates
    /\ input_file \in InputFiles
    /\ heap = <<>>
    /\ credit_transactions = <<>>
    /\ id = <<>>
    /\ index = 0
    /\ cdtTrfTxInf = None
    /\ parent = None
    /\ appended = <<>>
    /\ output_file = <<>>
    /\ error = "none"
    /\ runs = <<>>
    /\ e2e = <<>>

harness == <<runs, e2e>>
inputs == <<args, now, template, input_file>>

\* the exception recorded, the run carrying on to the write
RaiseAndWrite(exc) == pc' = "write" /\ error' = exc

Raise(exc) == pc' = "aborted" /\ error' = exc

\* tree = ET.parse('sepa-template.xml'); root = tree.getroot()
ParseTemplate ==
    /\ pc = "parse"
    /\ heap' = template
    /\ pc' = "read"
    /\ UNCHANGED <<inputs, credit_transactions, id, index, cdtTrfTxInf, parent, appended,
                   output_file, error, harness>>

\* credit_transactions = list(get_credit_transactions(args.input_file))
ReadTransactions ==
    /\ pc = "read"
    /\ IF \A i \in 1..Len(input_file) : RowIsLongEnough(input_file[i])
       THEN /\ credit_transactions' = [i \in 1..Len(input_file) |-> TxOf(input_file[i])]
            /\ pc' = "MsgId"
            /\ UNCHANGED error
       ELSE /\ Raise("IndexError")
            /\ UNCHANGED credit_transactions
    /\ UNCHANGED <<inputs, heap, id, index, cdtTrfTxInf, parent, appended, output_file,
                   harness>>

\* e = root.find(path); e.text = value   (AttributeError when find gives None)
Stamp(path, value, next) ==
    LET e == Find(heap, Root, path)
    IN IF e = None
       THEN Raise("AttributeError") /\ UNCHANGED heap
       ELSE heap' = SetText(heap, e, value) /\ pc' = next /\ UNCHANGED error

\* msgId = root.find('.//MsgId'); id = createMsgId(args.id_prefix); msgId.text = id
SetMsgId ==
    /\ pc = "MsgId"
    /\ \E rnd \in RandomDraws :
         /\ id' = CreateMsgId(args.id_prefix, rnd)
         /\ Stamp(<<"MsgId">>, id', "CreDtTm")
    /\ UNCHANGED <<inputs, credit_transactions, index, cdtTrfTxInf, parent, appended,
                   output_file, harness>>

frame == <<inputs, credit_transactions, id, index, cdtTrfTxInf, parent, appended,
           output_file, harness>>

\* creDtTm.text = now.isoformat().split('.')[0]
SetCreDtTm ==
    pc = "CreDtTm" /\ Stamp(<<"CreDtTm">>, CreDtTmText(now), "NbOfTxs") /\ UNCHANGED frame

\* NbOfTxs.text = str(len(credit_transactions))
SetNbOfTxs ==
    /\ pc = "NbOfTxs"
    /\ Stamp(<<"NbOfTxs">>, Str(Len(credit_transactions)), "InitgPty")
    /\ UNCHANGED frame

\* initgPty.text = args.initiating_party
SetInitgPty ==
    /\ pc = "InitgPty"
    /\ Stamp(<<"InitgPty", "Nm">>, args.initiating_party, "PmtInfId")
    /\ UNCHANGED frame

\* id += '-1'
PmtInfIdOf(msgId) == msgId \o <<"-", "1">>

\* pmtInfId = root.find('.//PmtInfId'); id += '-1'; pmtInfId.text = id
SetPmtInfId ==
    /\ pc = "PmtInfId"
    /\ id' = PmtInfIdOf(id)
    /\ Stamp(<<"PmtInfId">>, id', "ReqdExctnDt")
    /\ UNCHANGED <<inputs, credit_transactions, index, cdtTrfTxInf, parent, appended,
                   output_file, harness>>

\* reqdExctnDt.text = now.date().isoformat()
SetReqdExctnDt ==
    pc = "ReqdExctnDt" /\ Stamp(<<"ReqdExctnDt">>, DateIso(now), "Dbtr") /\ UNCHANGED frame

\* dbtr.text = args.debtor_name
SetDbtr ==
    pc = "Dbtr" /\ Stamp(<<"Dbtr", "Nm">>, args.debtor_name, "DbtrAcct") /\ UNCHANGED frame

\* ibanDbtr.text = args.debtor_account
SetDbtrAcct ==
    /\ pc = "DbtrAcct"
    /\ Stamp(<<"DbtrAcct", "Id", "IBAN">>, args.debtor_account, "DbtrAgt")
    /\ UNCHANGED frame

\* dbtr_bic.text = args.debtor_bic
SetDbtrBic ==
    /\ pc = "DbtrAgt"
    /\ Stamp(<<"DbtrAgt", "FinInstnId", "BIC">>, args.debtor_bic, "detach")
    /\ UNCHANGED frame

\* cdtTrfTxInf = root.find('.//CdtTrfTxInf'); parent = root.find('.//PmtInf')
\* parent.remove(cdtTrfTxInf)
Detach ==
    /\ pc = "detach"
    /\ cdtTrfTxInf' = Find(heap, Root, <<"CdtTrfTxInf">>)
    /\ parent' = Find(heap, Root, <<"PmtInf">>)
    /\ IF parent' = None
       THEN Raise("AttributeError") /\ UNCHANGED heap
       ELSE IF cdtTrfTxInf' = None
       THEN Raise("TypeError") /\ UNCHANGED heap
       ELSE IF ~InSeq(heap[parent'].children, cdtTrfTxInf')
       THEN Raise("ValueError") /\ UNCHANGED heap
       ELSE /\ heap' = RemoveChild(heap, parent', cdtTrfTxInf')
            /\ pc' = "loop"
            /\ UNCHANGED error
    /\ UNCHANGED <<inputs, credit_transactions, id, index, appended, output_file, harness>>

\* str(index) with the zfill left out
IndexTextUnpadded(i) == Str(i)

\* str(index).zfill(4)
IndexText(i) == ZFill(Str(i), IndexWidth)

\* endToEndIdText = id + '-' + str(index).zfill(4)
EndToEndIdText(pmtInfId, i) == pmtInfId \o <<"-">> \o IndexText(i)

\* elem = cdtTrfTxInf: no copy at all
CloneBlockAlias(h, blk) == [heap |-> h, node |-> blk]

\* elem = copy.copy(cdtTrfTxInf): a new top element over the same children
CloneBlockShallow(h, blk) ==
    LET new == MaxOf(DOMAIN h) + 1
    IN [heap |-> [x \in DOMAIN h \cup {new} |-> IF x = new THEN h[blk] ELSE h[x]],
        node |-> new]

\* elem = copy.deepcopy(cdtTrfTxInf)
CloneBlock(h, blk) == DeepCopy(h, blk)

\* the five lookups inside the clone, in the order the loop body makes them
BlockFields(h, elem) ==
    [endToEndIdElem |-> Find(h, elem, <<"EndToEndId">>),
     instdAmt |-> Find(h, elem, <<"InstdAmt">>),
     cdtr |-> Find(h, elem, <<"Cdtr", "Nm">>),
     cdtr_iban |-> Find(h, elem, <<"CdtrAcct", "Id", "IBAN">>),
     ustrd |-> Find(h, elem, <<"Ustrd">>)]

\* the five assignments to .text of the loop body
FillBlock(h, f, pmtInfId, i, tx) ==
    LET h1 == SetText(h, f.endToEndIdElem, EndToEndIdText(pmtInfId, i))
        h2 == SetText(h1, f.instdAmt, tx.amount)
        h3 == SetText(h2, f.cdtr, tx.creditor_name)
        h4 == SetText(h3, f.cdtr_iban, tx.iban)
    IN SetText(h4, f.ustrd, tx.descr)

\* one pass of: for index, tx in enumerate(credit_transactions)
LoopIter ==
    /\ pc = "loop"
    /\ index < Len(credit_transactions)
    /\ LET tx == credit_transactions[index + 1]
           cp == CloneBlock(heap, cdtTrfTxInf)
           f == BlockFields(cp.heap, cp.node)
       IN IF \E k \in DOMAIN f : f[k] = None
          THEN Raise("AttributeError") /\ UNCHANGED <<heap, index, appended>>
          ELSE /\ heap' = AppendChild(FillBlock(cp.heap, f, id, index, tx), parent, cp.node)
               /\ appended' = Append(appended, cp.node)
               /\ index' = index + 1
               /\ UNCHANGED <<pc, error>>
    /\ UNCHANGED <<inputs, credit_transactions, id, cdtTrfTxInf, parent, output_file, harness>>

\* return tree
Return ==
    /\ pc = "loop"
    /\ index = Len(credit_transactions)
    /\ pc' = "write"
    /\ UNCHANGED <<inputs, heap, credit_transactions, id, index, cdtTrfTxInf, parent, appended,
                   output_file, error, harness>>

RECURSIVE ToTree(_, _)
\* the document beneath element n, as a value
ToTree(h, n) ==
    [tag |-> h[n].tag, text |-> h[n].text, attrib |-> h[n].attrib,
     children |-> [i \in 1..Len(h[n].children) |-> ToTree(h, h[n].children[i])]]

\* tree.write(args.output_file, method='html')
WriteOutput ==
    /\ pc = "write"
    /\ output_file' = <<ToTree(heap, Root)>>
    /\ pc' = "done"
    /\ UNCHANGED <<inputs, heap, credit_transactions, id, index, cdtTrfTxInf, parent, appended,
                   error, harness>>

Next ==
    \/ ParseTemplate
    \/ ReadTransactions
    \/ SetMsgId
    \/ SetCreDtTm
    \/ SetNbOfTxs
    \/ SetInitgPty
    \/ SetPmtInfId
    \/ SetReqdExctnDt
    \/ SetDbtr
    \/ SetDbtrAcct
    \/ SetDbtrBic
    \/ Detach
    \/ LoopIter
    \/ Return
    \/ WriteOutput

Spec == Init /\ [][Next]_vars

-----------------------------------------------------------------------------
(* createMsgId across separate processes *)

Quiet ==
    /\ template = SepaTemplate
    /\ input_file = <<>>
    /\ heap = <<>>
    /\ credit_transactions = <<>>
    /\ index = 0
    /\ cdtTrfTxInf = None
    /\ parent = None
    /\ appended = <<>>
    /\ output_file = <<>>
    /\ error = "none"

FirstNow == CHOOSE t \in Nows : t.microsecond = 0

InitMsgId ==
    /\ pc = "shell"
    /\ args = ArgsOf(<<>>)
    /\ now = FirstNow
    /\ id = <<>>
    /\ runs = <<>>
    /\ e2e = <<>>
    /\ Quiet

process == <<template, input_file, heap, credit_transactions, index, cdtTrfTxInf, parent,
             appended, output_file, error>>

\* a process starts: now = datetime.now() at import, args = parser.parse_args()
StartProcess ==
    /\ pc = "shell"
    /\ Len(runs) < MaxRuns
    /\ now' \in Nows
    /\ \E prefix \in Prefixes : args' = ArgsOf(prefix)
    /\ pc' = "createMsgId"
    /\ UNCHANGED <<id, runs, e2e, process>>

\* id = createMsgId(args.id_prefix) in that process
CallCreateMsgId ==
    /\ pc = "createMsgId"
    /\ \E rnd \in RandomDraws :
         /\ id' = CreateMsgId(args.id_prefix, rnd)
         /\ runs' = Append(runs, [prefix |-> args.id_prefix, now |-> now, rnd |-> rnd,
                                  id |-> id'])
    /\ pc' = "shell"
    /\ UNCHANGED <<args, now, e2e, process>>

NextMsgId == StartProcess \/ CallCreateMsgId

SpecMsgId == InitMsgId /\ [][NextMsgId]_vars

-----------------------------------------------------------------------------
(* The identifiers derived from the message id, at any loop index *)

InitE2E ==
    /\ pc = "ids"
    /\ args \in {ArgsOf(x) : x \in {<<>>, PrefixAB}}
    /\ now = FirstNow
    /\ id = <<>>
    /\ runs = <<>>
    /\ e2e = <<>>
    /\ Quiet

\* lines 58 and 71: id = createMsgId(args.id_prefix); id += '-1'
DeriveIds ==
    /\ pc = "ids"
    /\ \E rnd \in RandomDraws : id' = PmtInfIdOf(CreateMsgId(args.id_prefix, rnd))
    /\ pc' = "index"
    /\ UNCHANGED <<args, now, runs, e2e, process>>

\* line 93 at loop index i
FormatEndToEndId ==
    /\ pc = "index"
    /\ \E i \in 0..MaxIndex : e2e' = <<[index |-> i, text |-> EndToEndIdText(id, i)]>>
    /\ pc' = "formatted"
    /\ UNCHANGED <<args, now, id, runs, process>>

InitIds == Init \/ InitE2E

NextIds == Next \/ DeriveIds \/ FormatEndToEndId

\* the runs of process_xml, and the id derivation at the indexes they do not reach
SpecIds == InitIds /\ [][NextIds]_vars

-----------------------------------------------------------------------------
(* Properties of createMsgId *)

\* C1: for every prefix and every timestamp the identifier createMsgId returns
\* is exactly 35 characters long.
C1_MsgIdLengthIs35 == \A i \in 1..Len(runs) : Len(runs[i].id) = 35

LeftPadded(prefix) == Zeros(PrefixWidth - Len(prefix)) \o prefix

\* C6: the identifier starts with the prefix normalized to 5 characters: its
\* first 5 characters when it is longer than 4, else the prefix with '0'
\* characters put at its left up to width 5 ('AB' -> '000AB', 'ABCDEFG' ->
\* 'ABCDE', '' -> '00000').
C6_PrefixLeftPaddedOrTruncated ==
    \A i \in 1..Len(runs) :
        SubSeq(runs[i].id, 1, PrefixWidth) =
            IF Len(runs[i].prefix) > 4 THEN SubSeq(runs[i].prefix, 1, PrefixWidth)
            ELSE LeftPadded(runs[i].prefix)

SameSecond(t, u) ==
    /\ t.year = u.year /\ t.month = u.month /\ t.day = u.day
    /\ t.hour = u.hour /\ t.minute = u.minute /\ t.second = u.second

LastChars(s, k) == SubSeq(s, Len(s) - k + 1, Len(s))

\* C9 as stated: two runs never produce the same message identifier.
C9_MsgIdUniquePerRun ==
    \A i, j \in 1..Len(runs) : i # j => runs[i].id # runs[j].id

\* C9 amended: two runs return the same identifier only when their first five
\* characters, their timestamps to the second and all seven random characters
\* coincide, and every call ends its identifier with the seven characters it
\* drew itself.
C9_MsgIdEqualOnlyOnSameDraw ==
    /\ \A i \in 1..Len(runs) : LastChars(runs[i].id, RandLen) = runs[i].rnd
    /\ \A i, j \in 1..Len(runs) :
         runs[i].id = runs[j].id =>
            /\ runs[i].rnd = runs[j].rnd
            /\ SameSecond(runs[i].now, runs[j].now)
            /\ SubSeq(runs[i].id, 1, PrefixWidth) = SubSeq(runs[j].id, 1, PrefixWidth)

\* two runs with different prefixes that returned the same identifier
C9_TwoRunsSameId ==
    /\ Len(runs) = 2
    /\ runs[1].id = runs[2].id
    /\ runs[1].prefix # runs[2].prefix

-----------------------------------------------------------------------------
(* Reading the document *)

\* the text of the first element root.find(path) gives
FieldText(h, path) == h[Find(h, Root, path)].text

\* the transaction blocks of the payment-information section, in order
TxBlocks(h) == SelectTag(h, "CdtTrfTxInf", h[Find(h, Root, <<"PmtInf">>)].children)

\* the run has passed the statement that stamps the field, and did not abort
Passed(positions) == pc \in positions

AfterPmtInfId == {"ReqdExctnDt", "Dbtr", "DbtrAcct", "DbtrAgt", "detach", "loop", "write", "done"}
AfterDetach == {"loop", "write", "done"}
Returned == {"write", "done"}

\* the template file is as the program expects it: one transaction block, a
\* child of the one payment-information section
OneBlockTemplate ==
    /\ Len(FindAll(template, Root, <<"PmtInf">>)) = 1
    /\ Len(FindAll(template, Root, <<"CdtTrfTxInf">>)) = 1
    /\ Len(TxBlocks(template)) = 1

DigitValue(c) == CHOOSE v \in 0..9 : Digits[v + 1] = c

AllDigits(d) == \A k \in 1..Len(d) : \E v \in 0..9 : Digits[v + 1] = d[k]

RECURSIVE DecValue(_)
DecValue(d) ==
    IF d = <<>> THEN 0 ELSE 10 * DecValue(SubSeq(d, 1, Len(d) - 1)) + DigitValue(d[Len(d)])

StartsWith(s, p) == Len(s) >= Len(p) /\ SubSeq(s, 1, Len(p)) = p

Rest(s, p) == SubSeq(s, Len(p) + 1, Len(s))

\* d is i written as a zero-padded 4-digit number
FourDigits(d, i) == Len(d) = 4 /\ AllDigits(d) /\ DecValue(d) = i

\* d is i in decimal, zero-padded to at least 4 digits and no further
AtLeastFourDigits(d, i) ==
    /\ Len(d) >= 4 /\ AllDigits(d) /\ DecValue(d) = i
    /\ Len(d) > 4 => d[1] # "0"

-----------------------------------------------------------------------------
(* Properties of the derived identifiers *)

IdsDerived(Padded(_, _)) ==
    /\ Passed(AfterPmtInfId) =>
          FieldText(heap, <<"PmtInfId">>) = FieldText(heap, <<"MsgId">>) \o <<"-", "1">>
    /\ Passed(AfterDetach) =>
          \A k \in 1..Len(appended) :
             LET text == heap[Find(heap, appended[k], <<"EndToEndId">>)].text
                 lead == FieldText(heap, <<"PmtInfId">>) \o <<"-">>
             IN StartsWith(text, lead) /\ Padded(Rest(text, lead), k - 1)
    /\ e2e # <<>> =>
          /\ StartsWith(e2e[1].text, id \o <<"-">>)
          /\ Padded(Rest(e2e[1].text, id \o <<"-">>), e2e[1].index)
          /\ LastChars(id, 2) = <<"-", "1">>

\* C7 as stated: PmtInfId is MsgId followed by '-1', and the end-to-end-id of
\* the block at index i is PmtInfId, '-' and i as a zero-padded 4-digit number,
\* for every number of input rows.
C7_EndToEndIdFourDigits == IdsDerived(FourDigits)

\* C7 amended: PmtInfId is MsgId followed by '-1', and the end-to-end-id of the
\* block at index i is PmtInfId, '-' and i in decimal, zero-padded to at least 4
\* digits: 4 digits up to index 9999, the unpadded digits from 10000 on.
C7_EndToEndIdAtLeastFourDigits == IdsDerived(AtLeastFourDigits)

\* a document with two blocks has been written
C7_TwoBlocksWritten == pc = "done" /\ Len(appended) = 2 /\ OneBlockTemplate

-----------------------------------------------------------------------------
(* Properties of process_xml *)

NodesOf(h, n) == {Preorder(h, n)[i] : i \in 1..Len(Preorder(h, n))}

\* t is the decimal string of n
DecimalOf(t, n) ==
    /\ Len(t) >= 1 /\ AllDigits(t) /\ DecValue(t) = n
    /\ Len(t) > 1 => t[1] # "0"

\* C2: once process_xml has succeeded on N rows, NbOfTxs holds the decimal
\* string of N and exactly N transaction blocks have been appended to the
\* payment-information section.
C2_TransactionCount ==
    Passed(Returned) =>
        LET N == Len(input_file)
            kids == heap[parent].children
        IN /\ DecimalOf(FieldText(heap, <<"NbOfTxs">>), N)
           /\ Len(appended) = N
           /\ Len(kids) >= N /\ LastChars(kids, N) = appended
           /\ \A j, k \in 1..N : j # k => appended[j] # appended[k]
           /\ Len(TxBlocks(heap)) = N + Len(TxBlocks(template)) - 1

\* a run over two rows has been written
C2_TwoRowsDone == pc = "done" /\ Len(input_file) = 2

LeafText(h, blk, path) == h[Find(h, blk, path)].text

\* C3: block i of the output carries row i: amount from field 0, IBAN from
\* field 1, creditor name from field 2, remittance text from field 4, nothing
\* from field 3, and its end-to-end-id ends in '-' and the zero-padded index.
C3_OrderPreserved ==
    (Passed(Returned) /\ OneBlockTemplate) =>
        LET blocks == TxBlocks(heap)
            Suffix(b) == LastChars(LeafText(heap, b, <<"EndToEndId">>), IndexWidth + 1)
        IN /\ Len(blocks) = Len(input_file)
           /\ \A i \in 1..Len(blocks) :
                LET b == blocks[i]
                    row == input_file[i]
                IN /\ LeafText(heap, b, <<"InstdAmt">>) = row[1]
                   /\ LeafText(heap, b, <<"CdtrAcct", "Id", "IBAN">>) = row[2]
                   /\ LeafText(heap, b, <<"Cdtr", "Nm">>) = row[3]
                   /\ LeafText(heap, b, <<"Ustrd">>) = row[5]
                   /\ \A n \in NodesOf(heap, b) : heap[n].text # row[4]
                   /\ Head(Suffix(b)) = "-" /\ FourDigits(Tail(Suffix(b)), i - 1)
                   /\ \A j \in 1..Len(blocks) : Suffix(blocks[j]) = Suffix(b) => j = i

\* the rows A, B have been written, in that order
C3_RowsABDone == pc = "done" /\ OneBlockTemplate /\ input_file = <<RowA, RowB>>

\* C4: with one transaction block in the template, the section holds no
\* transaction block right after the detach step, and after a build over N
\* rows it holds N transaction blocks, none of them the template's block.
C4_NoResidualTemplateBlock ==
    OneBlockTemplate =>
        /\ (pc = "loop" /\ index = 0) => TxBlocks(heap) = <<>>
        /\ Passed(Returned) =>
              /\ Len(TxBlocks(heap)) = Len(input_file)
              /\ \A k \in 1..Len(TxBlocks(heap)) :
                    /\ TxBlocks(heap)[k] # cdtTrfTxInf
                    /\ TxBlocks(heap)[k] \notin DOMAIN template

\* the block has just been detached and rows are waiting
C4_JustDetached ==
    pc = "loop" /\ index = 0 /\ OneBlockTemplate /\ Len(credit_transactions) > 0

HeaderPaths ==
    {<<"MsgId">>, <<"CreDtTm">>, <<"NbOfTxs">>, <<"InitgPty", "Nm">>, <<"PmtInfId">>,
     <<"ReqdExctnDt">>, <<"Dbtr", "Nm">>, <<"DbtrAcct", "Id", "IBAN">>,
     <<"DbtrAgt", "FinInstnId", "BIC">>, <<"PmtInf">>, <<"CdtTrfTxInf">>}

BlockPaths ==
    {<<"EndToEndId">>, <<"InstdAmt">>, <<"Cdtr", "Nm">>, <<"CdtrAcct", "Id", "IBAN">>,
     <<"Ustrd">>}

ShortRow == \E i \in 1..Len(input_file) : Len(input_file[i]) < 5

\* a node the run looks up is absent from the template file
LookupFails ==
    \/ \E path \in HeaderPaths : Find(template, Root, path) = None
    \/ /\ Len(input_file) > 0
       /\ \E path \in BlockPaths :
             Find(template, Find(template, Root, <<"CdtTrfTxInf">>), path) = None

\* every header field and every transaction block holds its value
AllFilled ==
    /\ FieldText(heap, <<"MsgId">>) \o <<"-", "1">> = id
    /\ FieldText(heap, <<"CreDtTm">>) = CreDtTmText(now)
    /\ FieldText(heap, <<"NbOfTxs">>) = Str(Len(input_file))
    /\ FieldText(heap, <<"InitgPty", "Nm">>) = args.initiating_party
    /\ FieldText(heap, <<"PmtInfId">>) = id
    /\ FieldText(heap, <<"ReqdExctnDt">>) = DateIso(now)
    /\ FieldText(heap, <<"Dbtr", "Nm">>) = args.debtor_name
    /\ FieldText(heap, <<"DbtrAcct", "Id", "IBAN">>) = args.debtor_account
    /\ FieldText(heap, <<"DbtrAgt", "FinInstnId", "BIC">>) = args.debtor_bic
    /\ Len(appended) = Len(input_file)
    /\ \A k \in 1..Len(appended) :
          /\ InSeq(heap[parent].children, appended[k])
          /\ LeafText(heap, appended[k], <<"EndToEndId">>) = EndToEndIdText(id, k - 1)
          /\ LeafText(heap, appended[k], <<"InstdAmt">>) = input_file[k][1]
          /\ LeafText(heap, appended[k], <<"CdtrAcct", "Id", "IBAN">>) = input_file[k][2]
          /\ LeafText(heap, appended[k], <<"Cdtr", "Nm">>) = input_file[k][3]
          /\ LeafText(heap, appended[k], <<"Ustrd">>) = input_file[k][5]

\* the guards of the actions of Next: some statement is left to run
CanStep ==
    \/ pc \in {"parse", "read", "MsgId", "CreDtTm", "NbOfTxs", "InitgPty", "PmtInfId",
               "ReqdExctnDt", "Dbtr", "DbtrAcct", "DbtrAgt", "detach", "write"}
    \/ pc = "loop" /\ index <= Len(credit_transactions)

\* C5: the build is all-or-nothing: a row of fewer than 5 fields or an absent
\* template node makes the run raise with the output never written, and the
\* output is written only after every header field and block is filled.
C5_AllOrNothing ==
    /\ (ShortRow \/ LookupFails) => (output_file = <<>> /\ pc \notin {"write", "done"})
    /\ pc = "aborted" => (error # "none" /\ output_file = <<>>)
    /\ pc # "aborted" => error = "none"
    /\ pc \notin {"aborted", "done"} => CanStep
    /\ output_file # <<>> => (pc = "done" /\ AllFilled /\ output_file = <<ToTree(heap, Root)>>)
    /\ pc = "done" => output_file # <<>>

\* a run that a short row aborted
C5_AbortedOnShortRow == pc = "aborted" /\ error = "IndexError" /\ ShortRow

RECURSIVE MaskedTree(_, _, _)
\* the document beneath n with the text of the elements in S blanked
MaskedTree(h, n, S) ==
    [tag |-> h[n].tag, text |-> IF n \in S THEN NoText ELSE h[n].text, attrib |-> h[n].attrib,
     children |-> [i \in 1..Len(h[n].children) |-> MaskedTree(h, h[n].children[i], S)]]

FiveLeaves(h, blk) == {Find(h, blk, path) : path \in BlockPaths}

\* C8: every appended block is a deep copy of the template block: same
\* elements, order and attributes, made of nodes of its own, and differing from
\* the template block in the text of the five filled leaves at most.
C8_BlocksAreDeepCopies ==
    Passed(AfterDetach) =>
        \A k \in 1..Len(appended) :
            LET b == appended[k]
            IN /\ MaskedTree(heap, b, FiveLeaves(heap, b))
                    = MaskedTree(template, cdtTrfTxInf, FiveLeaves(template, cdtTrfTxInf))
               /\ \A n \in FiveLeaves(heap, b) : heap[n].children = <<>>
               /\ NodesOf(heap, b) \cap DOMAIN template = {}
               /\ \A j \in 1..Len(appended) :
                     j # k => NodesOf(heap, b) \cap NodesOf(heap, appended[j]) = {}

\* two clones have been appended
C8_TwoClones == pc = "done" /\ Len(appended) = 2

\* what one step of the loop, or the return, may change in the tree
LoopFrame ==
    pc \in {"loop", "write"} =>
        /\ \A n \in DOMAIN heap \ {parent} : n \in DOMAIN heap' /\ heap'[n] = heap[n]
        /\ \/ heap'[parent] = heap[parent]
           \/ \E new \in DOMAIN heap' \ DOMAIN heap :
                 heap'[parent] = [heap[parent] EXCEPT !.children = Append(@, new)]

\* what every state from the detach on shows of the template block, the fields
\* stamped before the loop, and the blocks of other rows
LoopKeeps ==
    Passed(AfterDetach) =>
        /\ ToTree(heap, cdtTrfTxInf) = ToTree(template, cdtTrfTxInf)
        /\ FieldText(heap, <<"MsgId">>) \o <<"-", "1">> = id
        /\ FieldText(heap, <<"PmtInfId">>) = id
        /\ FieldText(heap, <<"CreDtTm">>) = CreDtTmText(now)
        /\ FieldText(heap, <<"NbOfTxs">>) = Str(Len(input_file))
        /\ FieldText(heap, <<"InitgPty", "Nm">>) = args.initiating_party
        /\ FieldText(heap, <<"ReqdExctnDt">>) = DateIso(now)
        /\ FieldText(heap, <<"Dbtr", "Nm">>) = args.debtor_name
        /\ FieldText(heap, <<"DbtrAcct", "Id", "IBAN">>) = args.debtor_account
        /\ FieldText(heap, <<"DbtrAgt", "FinInstnId", "BIC">>) = args.debtor_bic
        /\ \A k, j \in 1..Len(appended) :
              input_file[j] # input_file[k] =>
                 \A n \in NodesOf(heap, appended[k]) :
                    \A f \in 1..Len(input_file[j]) : heap[n].text # input_file[j][f]

\* C10: filling the clone for transaction i changes nothing outside that clone:
\* the detached template block, the blocks appended before and the fields
\* stamped before the loop keep their values until the document is returned.
C10_FillChangesOnlyTheClone == [][LoopFrame]_vars /\ []LoopKeeps

\* one block is appended and the next row is about to be filled
C10_MidLoop == pc = "loop" /\ index = 1 /\ Len(credit_transactions) = 2

====
